---------------------------- MODULE Spec2Model ----------------------------
(***************************************************************************)
(* Model of the ReviewXBlock click handler of                              *)
(* src/review/static/js/src/review.js.                                     *)
(*                                                                         *)
(* The page holds a fixed set of .review-button elements.  Every button    *)
(* has a sibling .review-content panel that holds zero or one iframe.      *)
(* The browser is single threaded: a click (with every handler bound to    *)
(* the button), the expiry of a debounce timeout, one run of a polling     *)
(* interval callback and the end of an iframe navigation are each one      *)
(* atomic step.  Timers are kept as the browser keeps them: a pool of      *)
(* pending timeouts and running intervals, each with the positive integer  *)
(* handle that setTimeout / setInterval returned; handles are drawn from   *)
(* one counter and never reused.                                           *)
(***************************************************************************)
EXTENDS Integers, FiniteSets, Sequences, TLC

\* The .review-button elements of the page.
Buttons == {"b1", "b2"}

\* JavaScript's undefined (a missing attribute, an unset data key).
Undefined == "undefined"

\* Largest timer handle the browser hands out in a run of the model.
MaxHandle == 5

\* Largest number of ReviewXBlock invocations (XBlock instances) on the page.
MaxInstances == 2

\* Delay of the debounce timeout, in ms (review.js line 17).
DebounceDelay == 100

\* Period of the height polling interval, in ms (review.js line 36).
PollPeriod == 1000

\* body.offsetHeight values the framed document may report.
OffsetHeights == {1, 2}

\* The data-iframe-src attribute an instance renders on button b, when present.
Url(b) == IF b = "b1" THEN "https://courses.edx.org/review/1"
          ELSE "https://courses.edx.org/review/2"

VARIABLES
  studio,         \* window.location.hostname contains "studio"
  hasIframe,      \* hasIframe[b]: the panel of b holds an iframe
  innerHTML,      \* the iframe elements hold fallback markup (truthy innerHTML)
  dataIframeSrc,  \* dataIframeSrc[b]: the data-iframe-src attribute of b
  handlers,       \* click handlers bound to each button (ReviewXBlock calls)
  disableClick,   \* disableClick[b]: b has class disable-click
  active,         \* active[b]: b has class review-button--active
  ariaExpanded,   \* ariaExpanded[b]: attribute aria-expanded of b
  contentActive,  \* contentActive[b]: panel has class review-content--active
  src,            \* src[b]: attribute src of the iframe of b
  height,         \* height[b]: attribute height of the iframe of b
  intervalID,     \* intervalID[b]: $btn.data('intervalID')
  doc,            \* doc[b]: what the iframe of b currently displays
  intervals,      \* running setInterval timers
  timeouts,       \* pending setTimeout timers
  nextHandle,     \* next timer handle of the browser
  processed,      \* processed[b]: clicks on b that passed the debounce guard
  srcWrites,      \* srcWrites[b]: assignments made to the src of b's iframe
  lastEvent       \* the event the browser ran last, and the button it was for

config == <<studio, hasIframe, innerHTML, dataIframeSrc>>
dom == <<disableClick, active, ariaExpanded, contentActive, src, height, intervalID>>
timers == <<intervals, timeouts, nextHandle>>
history == <<processed, srcWrites>>
observed == <<history, lastEvent>>
vars == <<config, handlers, dom, doc, timers, observed>>

\* What an iframe can display: the initial about:blank document, a document
\* that loaded normally, the server's "page not found" document, or nothing
\* the page may read (the load failed or the frame is cross-origin:
\* contentDocument is null and contentWindow.document throws).
DocStates == {"blank", "ok", "notfound", "failed"}

\* The mutable state of the page a click handler reads and writes, as one
\* record; threw records that the handler ended in an uncaught exception.
Page ==
  [disableClick |-> disableClick, active |-> active,
   ariaExpanded |-> ariaExpanded, contentActive |-> contentActive,
   src |-> src, intervalID |-> intervalID,
   intervals |-> intervals, timeouts |-> timeouts, nextHandle |-> nextHandle,
   processed |-> processed, srcWrites |-> srcWrites, threw |-> FALSE]

\* Mutant of HasDisableClick: the guard of line 11 never sees the flag.
HasDisableClick_Off(s, b) == FALSE

\* line 11: $btn.hasClass('disable-click')
HasDisableClick(s, b) == s.disableClick[b]

\* Mutant of SetDebounce: the timeout is set but the class is not added.
SetDebounce_NoFlag(s, b) ==
  [s EXCEPT !.timeouts = @ \cup {[id |-> s.nextHandle, btn |-> b,
                                  delay |-> DebounceDelay]},
            !.nextHandle = @ + 1,
            !.processed[b] = @ + 1]

\* Mutant of SetDebounce: the class is added but no timeout is set.
SetDebounce_NoTimeout(s, b) ==
  [s EXCEPT !.disableClick[b] = TRUE,
            !.processed[b] = @ + 1]

\* lines 13-17: addClass('disable-click') and setTimeout(removeClass, 100).
\* setTimeout takes the browser's next handle.
SetDebounce(s, b) ==
  [s EXCEPT !.disableClick[b] = TRUE,
            !.timeouts = @ \cup {[id |-> s.nextHandle, btn |-> b,
                                  delay |-> DebounceDelay]},
            !.nextHandle = @ + 1,
            !.processed[b] = @ + 1]

\* line 22: $btn.data('iframe-src').  jQuery returns undefined for a missing
\* attribute and the attribute's string for a URL.
DataIframeSrc(b) == dataIframeSrc[b]

\* Mutant of LazyLoad: the src is assigned on every processed click.
LazyLoad_Always(s, b) ==
  IF hasIframe[b] /\ dataIframeSrc[b] # Undefined
    THEN [s EXCEPT !.src[b] = dataIframeSrc[b], !.srcWrites[b] = @ + 1]
    ELSE s

\* lines 21-23: the lazy load.  $iframe.attr('src') of an empty selection is
\* undefined, and attr('src', undefined) is a read: it sets nothing.
LazyLoad(s, b) ==
  IF hasIframe[b] /\ s.src[b] = "" /\ DataIframeSrc(b) # Undefined
    THEN [s EXCEPT !.src[b] = DataIframeSrc(b), !.srcWrites[b] = @ + 1]
    ELSE s

\* Mutant of NotStudio: the hostname check always passes.
NotStudio_Always == TRUE

\* line 28: window.location.hostname.indexOf("studio") == -1
NotStudio == ~studio

\* line 31: $btn.attr('class').includes('review-button--active')
IsActive(s, b) == s.active[b]

\* line 32: clearInterval(h) stops the timer with handle h, of either kind
\* (the browser keeps one pool of handles); an unknown handle or undefined
\* stops nothing.
ClearInterval(s, h) ==
  [s EXCEPT !.intervals = {t \in @ : t.id # h},
            !.timeouts = {t \in @ : t.id # h}]

\* lines 34-36: setInterval(callback, 1000), its handle stored as the
\* button's intervalID data.
SetInterval(s, b) ==
  [s EXCEPT !.intervals = @ \cup {[id |-> s.nextHandle, btn |-> b,
                                   delay |-> PollPeriod]},
            !.intervalID[b] = s.nextHandle,
            !.nextHandle = @ + 1]

\* lines 31-37: stop the polling timer of an active button, start one for
\* an inactive button.
Polling(s, b) ==
  IF IsActive(s, b) THEN ClearInterval(s, s.intervalID[b])
                    ELSE SetInterval(s, b)

\* lines 42-51: the 404 probe.  It writes nothing; it throws a TypeError
\* when the selection is empty ($iframe['0'] is undefined) and when the
\* iframe has inner markup while its contentDocument is null.
ProbeThrows(b) ==
  \/ ~hasIframe[b]
  \/ innerHTML /\ doc[b] = "failed"

\* Mutant of ToggleAria: the comparison of line 59 the other way round.
ToggleAria_Swapped(a) == IF a = "true" THEN "true" ELSE "false"

\* line 59: aria-expanded === 'true' ? 'false' : 'true'
ToggleAria(a) == IF a = "true" THEN "false" ELSE "true"

\* Mutant of Toggle: the classes are toggled on every .review-button and
\* every .review-content of the page, not on $btn and $content.
Toggle_EveryButton(s, b) ==
  [s EXCEPT !.active = [c \in Buttons |-> ~@[c]],
            !.ariaExpanded[b] = ToggleAria(@),
            !.contentActive = [c \in Buttons |-> ~@[c]]]

\* lines 55-62: toggle the button's active class, its aria-expanded
\* attribute and the panel's active class.
Toggle(s, b) ==
  [s EXCEPT !.active[b] = ~@,
            !.ariaExpanded[b] = ToggleAria(@),
            !.contentActive[b] = ~@]

\* lines 28-52: the part of the handler that runs outside Studio.
NonStudioPart(s, b) ==
  LET p == Polling(s, b)
  IN  IF ProbeThrows(b) THEN [p EXCEPT !.threw = TRUE] ELSE p

\* Mutant of Handler: a click inside the debounce window restarts the window.
Handler_Reschedule(s, b) ==
  IF HasDisableClick(s, b)
    THEN [s EXCEPT !.timeouts = {t \in @ : t.btn # b}
                                  \cup {[id |-> s.nextHandle, btn |-> b,
                                         delay |-> DebounceDelay]},
                   !.nextHandle = @ + 1]
  ELSE LET s1 == LazyLoad(SetDebounce(s, b), b)
           s2 == IF NotStudio THEN NonStudioPart(s1, b) ELSE s1
       IN  IF s2.threw THEN s2 ELSE Toggle(s2, b)

\* Mutant of Handler: in Studio the handler returns after the lazy load.
Handler_StudioReturns(s, b) ==
  IF HasDisableClick(s, b) THEN s
  ELSE LET s1 == LazyLoad(SetDebounce(s, b), b)
           s2 == IF NotStudio THEN NonStudioPart(s1, b) ELSE s1
       IN  IF s2.threw \/ ~NotStudio THEN s2 ELSE Toggle(s2, b)

\* lines 7-64: one run of the click handler for button b.
Handler(s, b) ==
  IF HasDisableClick(s, b) THEN s
  ELSE LET s1 == LazyLoad(SetDebounce(s, b), b)
           s2 == IF NotStudio THEN NonStudioPart(s1, b) ELSE s1
       IN  IF s2.threw THEN s2 ELSE Toggle(s2, b)

\* jQuery's dispatch of one click to the k handlers bound to the button, in
\* the order they were bound; an exception leaves the dispatch, so the
\* handlers after the one that threw do not run.
RECURSIVE Dispatch(_, _, _)
Dispatch(s, b, k) ==
  IF k = 0 THEN s
  ELSE LET r == Handler(s, b)
       IN  IF r.threw THEN r ELSE Dispatch(r, b, k - 1)

\* The page after one physical click on button b.
AfterClick(b) == Dispatch(Page, b, handlers)

TypeOK ==
  /\ studio \in BOOLEAN /\ innerHTML \in BOOLEAN
  /\ hasIframe \in [Buttons -> BOOLEAN]
  /\ handlers \in 1..MaxInstances
  /\ disableClick \in [Buttons -> BOOLEAN]
  /\ active \in [Buttons -> BOOLEAN]
  /\ contentActive \in [Buttons -> BOOLEAN]
  /\ ariaExpanded \in [Buttons -> {Undefined, "false", "true"}]
  /\ doc \in [Buttons -> DocStates]
  /\ intervalID \in [Buttons -> 0..MaxHandle]
  /\ nextHandle \in 1..(MaxHandle + 1)

\* The page as the templates render it: every button collapsed, its panel
\* hidden, the iframe (if any) with an empty src showing about:blank, no
\* timer set, and one ReviewXBlock invocation done.
Init ==
  /\ studio \in BOOLEAN
  /\ innerHTML \in BOOLEAN
  /\ hasIframe \in [Buttons -> BOOLEAN]
  /\ dataIframeSrc \in {f \in [Buttons -> {Undefined} \cup {Url(b) : b \in Buttons}] :
                          \A b \in Buttons : f[b] \in {Undefined, Url(b)}}
  /\ handlers = 1
  /\ disableClick = [b \in Buttons |-> FALSE]
  /\ active = [b \in Buttons |-> FALSE]
  /\ \E a \in {Undefined, "false"} : ariaExpanded = [b \in Buttons |-> a]
  /\ contentActive = [b \in Buttons |-> FALSE]
  /\ src = [b \in Buttons |-> IF hasIframe[b] THEN "" ELSE Undefined]
  /\ height = [b \in Buttons |-> Undefined]
  /\ intervalID = [b \in Buttons |-> 0]
  /\ doc = [b \in Buttons |-> "blank"]
  /\ intervals = {}
  /\ timeouts = {}
  /\ nextHandle = 1
  /\ processed = [b \in Buttons |-> 0]
  /\ srcWrites = [b \in Buttons |-> 0]
  /\ lastEvent = [kind |-> "ready", btn |-> "none"]

\* lines 2-6: another XBlock instance calls ReviewXBlock, which binds one
\* more click handler to every .review-button of the page.
ReviewXBlock ==
  /\ handlers < MaxInstances
  /\ handlers' = handlers + 1
  /\ lastEvent' = [kind |-> "bind", btn |-> "none"]
  /\ UNCHANGED <<config, dom, doc, timers, history>>

\* A physical click on button b: every bound handler runs.  A click that
\* passes the debounce guard takes up to two timer handles.
Click(b) ==
  /\ disableClick[b] \/ nextHandle + 1 <= MaxHandle
  /\ LET r == AfterClick(b)
     IN  /\ disableClick' = r.disableClick
         /\ active' = r.active
         /\ ariaExpanded' = r.ariaExpanded
         /\ contentActive' = r.contentActive
         /\ src' = r.src
         /\ intervalID' = r.intervalID
         /\ intervals' = r.intervals
         /\ timeouts' = r.timeouts
         /\ nextHandle' = r.nextHandle
         /\ processed' = r.processed
         /\ srcWrites' = r.srcWrites
         /\ lastEvent' = [kind |-> IF disableClick[b] THEN "debounced"
                                   ELSE IF r.threw THEN "aborted"
                                   ELSE "click",
                          btn |-> b]
  /\ UNCHANGED <<config, handlers, height, doc>>

\* lines 15-17: the debounce timeout t fires: removeClass('disable-click').
Expire(t) ==
  /\ t \in timeouts
  /\ timeouts' = timeouts \ {t}
  /\ disableClick' = [disableClick EXCEPT ![t.btn] = FALSE]
  /\ UNCHANGED <<config, handlers, active, ariaExpanded, contentActive, src,
                 height, intervalID, doc, intervals, nextHandle, history>>
  /\ lastEvent' = [kind |-> "expire", btn |-> t.btn]

\* line 35: can the callback read contentWindow.document.body.offsetHeight?
\* It throws for an empty selection and for a document the page may not read.
CanMeasure(b) == hasIframe[b] /\ doc[b] # "failed"

\* line 35: n + 'px'
Px(n) == CASE n = 1 -> "1px" [] n = 2 -> "2px" [] OTHER -> "0px"

\* Mutant of Tick: the callback runs once and its timer is gone, as a
\* setTimeout in place of the setInterval would have it.
Tick_OneShot(t) ==
  /\ t \in intervals
  /\ IF CanMeasure(t.btn)
       THEN \E h \in OffsetHeights : height' = [height EXCEPT ![t.btn] = Px(h)]
       ELSE UNCHANGED height
  /\ intervals' = intervals \ {t}
  /\ UNCHANGED <<config, handlers, disableClick, active, ariaExpanded,
                 contentActive, src, intervalID, doc, timeouts, nextHandle,
                 history>>
  /\ lastEvent' = [kind |-> "tick", btn |-> t.btn]

\* lines 34-36: one run of the callback of the running interval t: the
\* iframe's height attribute becomes the body's offset height; a callback
\* that throws changes nothing and the interval keeps running.
Tick(t) ==
  /\ t \in intervals
  /\ IF CanMeasure(t.btn)
       THEN \E h \in OffsetHeights : height' = [height EXCEPT ![t.btn] = Px(h)]
       ELSE UNCHANGED height
  /\ UNCHANGED <<config, handlers, disableClick, active, ariaExpanded,
                 contentActive, src, intervalID, doc, timers, history>>
  /\ lastEvent' = [kind |-> "tick", btn |-> t.btn]

\* The navigation started by the assignment to src ends: the iframe shows
\* the review page, a "page not found" page, or nothing the page may read.
Load(b) ==
  /\ hasIframe[b] /\ src[b] \notin {"", Undefined} /\ doc[b] = "blank"
  /\ \E d \in DocStates \ {"blank"} : doc' = [doc EXCEPT ![b] = d]
  /\ lastEvent' = [kind |-> "load", btn |-> b]
  /\ UNCHANGED <<config, handlers, dom, timers, history>>

Next ==
  \/ ReviewXBlock
  \/ \E b \in Buttons : Click(b)
  \/ \E t \in timeouts : Expire(t)
  \/ \E t \in intervals : Tick(t)
  \/ \E b \in Buttons : Load(b)

Spec == Init /\ [][Next]_vars

\* The browser's event loop runs every timeout that is due.
FairSpec == Spec /\ \A b \in Buttons : WF_vars(\E t \in timeouts : t.btn = b /\ Expire(t))

(***************************************************************************)
(* The claims.                                                             *)
(***************************************************************************)

\* The polling timers running for button b.
RunningFor(b) == {t \in intervals : t.btn = b}

\* The debounce timeouts pending for button b.
PendingFor(b) == {t \in timeouts : t.btn = b}

\* Every button has its content panel and iframe.
WellFormed == \A b \in Buttons : hasIframe[b]

\* The timer invariant of the data model, for button b: no polling timer
\* runs while b is inactive, and at most one runs for b.
TimerInvariant(b) ==
  /\ ~active[b] => RunningFor(b) = {}
  /\ Cardinality(RunningFor(b)) <= 1

\* The last event was a click on b of the given kind.
Clicked(kind, b) == lastEvent = [kind |-> kind, btn |-> b]

\* C1: on a non-Studio page where every button has its panel and iframe, in
\* every reachable state no polling timer runs for an inactive button and at
\* most one polling timer runs per button (no interval is leaked).
C1_NoLeakedInterval ==
  (~studio /\ WellFormed) => \A b \in Buttons : TimerInvariant(b)

\* C2: a click on a button whose debounce timeout is still pending runs none
\* of the lazy-load, timer start/stop and toggle steps: they ran for the
\* click that set the timeout only.
C2_SecondClickRunsNothing ==
  [][\A b \in Buttons :
       (PendingFor(b) # {} /\ lastEvent'.btn = b
          /\ lastEvent'.kind \in {"click", "aborted", "debounced"})
       => /\ lastEvent'.kind = "debounced"
          /\ processed' = processed
          /\ src' = src /\ srcWrites' = srcWrites
          /\ intervals' = intervals /\ intervalID' = intervalID
          /\ active' = active /\ ariaExpanded' = ariaExpanded
          /\ contentActive' = contentActive]_vars

\* C2 witness: a second click on b1 arrived inside the window of the first,
\* which had activated b1.
C2_Witness ==
  /\ Clicked("debounced", "b1")
  /\ processed["b1"] = 1 /\ active["b1"] /\ PendingFor("b1") # {}

\* C3, the part about the flag: under the event loop's fairness a set
\* disable-click flag is eventually removed.
C3_FlagEventuallyRemoved ==
  \A b \in Buttons : disableClick[b] ~> ~disableClick[b]

\* C3: the first click after the flag's removal is processed in full: it
\* passes the guard, sets the flag and its timeout, and toggles the button,
\* its aria-expanded and its panel.
C3_NextClickProcessedInFull ==
  [][\A b \in Buttons :
       (~disableClick[b] /\ processed[b] >= 1 /\ lastEvent'.btn = b
          /\ lastEvent'.kind \in {"click", "aborted", "debounced"})
       => /\ processed'[b] = processed[b] + 1
          /\ disableClick'[b] /\ PendingFor(b)' # {}
          /\ active'[b] = ~active[b]
          /\ ariaExpanded'[b] = ToggleAria(ariaExpanded[b])
          /\ contentActive'[b] = ~contentActive[b]]_vars

\* C4: in every reachable state a button has the review-button--active
\* class if and only if its aria-expanded attribute is the string 'true'.
C4_ActiveIffAriaExpanded ==
  \A b \in Buttons : active[b] <=> (ariaExpanded[b] = "true")

\* C4 witness: b1 was activated and deactivated again by processed clicks.
C4_Witness ==
  /\ Clicked("click", "b1") /\ processed["b1"] = 2
  /\ ~active["b1"] /\ ariaExpanded["b1"] = "false"

\* C5: for a button with a data-iframe-src whose iframe src starts empty,
\* the src is empty before the first processed click, is the
\* data-iframe-src value from that click on, and was assigned exactly once.
C5_SrcWrittenOnce ==
  \A b \in Buttons :
    (hasIframe[b] /\ dataIframeSrc[b] # Undefined)
    => /\ processed[b] = 0 => (src[b] = "" /\ srcWrites[b] = 0)
       /\ processed[b] >= 1 => (src[b] = dataIframeSrc[b] /\ srcWrites[b] = 1)

\* C5 witness: b1 went through activate, deactivate, activate.
C5_Witness ==
  /\ hasIframe["b1"] /\ dataIframeSrc["b1"] # Undefined
  /\ processed["b1"] = 3 /\ active["b1"] /\ srcWrites["b1"] = 1

\* C6: in Studio no polling timer is ever started and no timer handle is
\* ever stored on a button.
C6_StudioStartsNoTimer ==
  studio => /\ intervals = {}
            /\ \A b \in Buttons : intervalID[b] = 0

\* C6 witness: in Studio, b1 was activated by a processed click.
C6_Witness ==
  studio /\ Clicked("click", "b1") /\ active["b1"]

\* The fields of the page a click on a button may change.
ButtonState(s) ==
  [disableClick |-> s.disableClick, active |-> s.active,
   ariaExpanded |-> s.ariaExpanded, contentActive |-> s.contentActive,
   src |-> s.src, intervalID |-> s.intervalID,
   intervals |-> s.intervals, timeouts |-> s.timeouts]

\* C7: with k >= 1 handlers bound to a button, one physical click leaves the
\* page as one run of the handler leaves it.
C7_InitIdempotent ==
  [][\A b \in Buttons :
       (lastEvent'.btn = b
          /\ lastEvent'.kind \in {"click", "aborted", "debounced"})
       => ButtonState(Page)' = ButtonState(Handler(Page, b))]_vars

\* C7 witness: two handlers are bound and one click activated b1.
C7_Witness ==
  /\ handlers = 2 /\ Clicked("click", "b1")
  /\ processed["b1"] = 1 /\ active["b1"]

\* C8: on a non-Studio page, for a button whose panel holds no iframe, the
\* timer invariant is preserved by every click.
C8_NoIframeKeepsTimerInvariant ==
  \A b \in Buttons : (~studio /\ ~hasIframe[b]) => TimerInvariant(b)

\* C9: a click that arrives while the disable-click flag is set changes
\* nothing: not the classes, attributes and data of any element, not the
\* running intervals, and not the pending timeouts (the window is neither
\* cancelled nor restarted).
C9_DebouncedClickChangesNothing ==
  [][\A b \in Buttons :
       (disableClick[b] /\ lastEvent'.btn = b
          /\ lastEvent'.kind \in {"click", "aborted", "debounced"})
       => UNCHANGED <<dom, doc, timers, history>>]_vars

\* C9 witness: a click on b1 was debounced and the timeout of the click
\* before it is still the one pending.
C9_Witness ==
  /\ Clicked("debounced", "b1") /\ disableClick["b1"]
  /\ Cardinality(PendingFor("b1")) = 1

\* C10: in Studio a processed click performs the lazy load and the three
\* toggles, and leaves the polling timers and the stored handle alone.
C10_StudioClickStillToggles ==
  [][\A b \in Buttons :
       (studio /\ ~disableClick[b] /\ lastEvent'.btn = b
          /\ lastEvent'.kind \in {"click", "aborted", "debounced"})
       => /\ lastEvent'.kind = "click"
          /\ src'[b] = LazyLoad(Page, b).src[b]
          /\ active'[b] = ~active[b]
          /\ ariaExpanded'[b] = ToggleAria(ariaExpanded[b])
          /\ contentActive'[b] = ~contentActive[b]
          /\ intervalID' = intervalID /\ intervals' = intervals]_vars

\* C10 witness: in Studio a processed click loaded b1's iframe and
\* activated b1.
C10_Witness ==
  /\ studio /\ Clicked("click", "b1") /\ processed["b1"] = 1
  /\ src["b1"] = Url("b1") /\ active["b1"] /\ contentActive["b1"]

\* The last event, in the step that runs it, was a click on b that passed
\* the debounce guard.
ProcessedClick(b) ==
  /\ ~disableClick[b]
  /\ lastEvent'.btn = b
  /\ lastEvent'.kind \in {"click", "aborted", "debounced"}

\* C11: the 404 branch is inert: on a non-Studio page a processed click on a
\* button with an iframe changes the page as the handler without the branch
\* does, whatever the iframe holds, and its toggles always run.
C11_ProbeInert ==
  [][\A b \in Buttons :
       (~studio /\ hasIframe[b] /\ ProcessedClick(b))
       => /\ lastEvent'.kind = "click"
          /\ ButtonState(Page)' =
               ButtonState(Toggle(Polling(LazyLoad(SetDebounce(Page, b), b), b), b))]_vars

\* The step ran the polling callback of button b.
TickOf(b) == lastEvent' = [kind |-> "tick", btn |-> b] /\ lastEvent # lastEvent'

\* What a polling tick leaves alone: everything but the iframe heights.
TickFrame ==
  UNCHANGED <<disableClick, active, ariaExpanded, contentActive, src,
              intervalID, doc, intervals, timeouts, nextHandle>>

C13_ButtonPanelParity ==
  WellFormed => \A b \in Buttons :
                  /\ active[b] <=> contentActive[b]
                  /\ active[b] <=> (processed[b] % 2 = 1)

\* C14: on a non-Studio page with a well-formed DOM a button is active if
\* and only if exactly one polling timer runs for it, and then the handle
\* stored as its intervalID is the handle of that timer.
C14_ActiveIffOneTimer ==
  (~studio /\ WellFormed)
  => \A b \in Buttons :
       /\ active[b] <=> (Cardinality(RunningFor(b)) = 1)
       /\ active[b] => \A t \in RunningFor(b) : t.id = intervalID[b]
       /\ Cardinality(RunningFor(b)) <= 1

\* C15: the disable-click flag is set on a button if and only if exactly
\* one debounce timeout is pending for it, never more than one is pending,
\* the expiry that removes the flag removes the one pending timeout, and a
\* click is processed only when no timeout of the button is pending.
C15_FlagIffOneTimeoutPending ==
  /\ [](\A b \in Buttons :
          /\ disableClick[b] <=> (Cardinality(PendingFor(b)) = 1)
          /\ Cardinality(PendingFor(b)) <= 1)
  /\ [][\A b \in Buttons :
          /\ processed'[b] # processed[b]
               => (PendingFor(b) = {} /\ processed'[b] = processed[b] + 1)
          /\ (disableClick[b] /\ ~disableClick'[b])
               => (lastEvent' = [kind |-> "expire", btn |-> b]
                     /\ PendingFor(b)' = {})]_vars

\* C15 witness: the flag of b1, set by its second processed click, has just
\* been removed by the expiry of that click's timeout.
C15_Witness ==
  /\ Clicked("expire", "b1") /\ processed["b1"] = 2
  /\ ~disableClick["b1"] /\ PendingFor("b1") = {}

\* The state that belongs to button c: its classes and attributes, those of
\* its panel and iframe, its stored handle and its timers.
OwnState(c) ==
  <<disableClick[c], active[c], ariaExpanded[c], contentActive[c], src[c],
    height[c], intervalID[c], RunningFor(c), PendingFor(c)>>

\* C16: a click, debounce expiry or polling tick of one button leaves the
\* state of every other button unchanged.
C16_ButtonsIndependent ==
  [][\A b \in Buttons : \A c \in Buttons \ {b} :
       (lastEvent'.btn = b
          /\ lastEvent'.kind \in {"click", "aborted", "debounced", "expire", "tick"})
       => OwnState(c)' = OwnState(c)]_vars

\* C16 witness: with two handlers bound to every button, b1 is active with
\* its timer running and its debounce timeout pending, and a processed
\* click has just expanded b2 and started b2's own timer.
C16_Witness ==
  /\ handlers = 2 /\ Clicked("click", "b2") /\ processed["b2"] = 1
  /\ active["b2"] /\ active["b1"] /\ disableClick["b1"]
  /\ RunningFor("b1") # {} /\ RunningFor("b2") # {}
  /\ intervalID["b1"] # intervalID["b2"]

====
